---- MODULE Spec2Model ----
(***************************************************************************)
(* Model of YoutubeDownloader.py: the DownloaderWidget (start_download,    *)
(* download_thread, on_finished), the multiprocessing pool it drives, the  *)
(* per-video download_video, get_playlist_videos and sanitize_filename.    *)
(*                                                                         *)
(* Strings that the program inspects character by character (titles, the   *)
(* URL box) are sequences of one-character strings.  A video URL           *)
(* "https://www.youtube.com/watch?v=<id>" is represented by its id.        *)
(***************************************************************************)
EXTENDS Integers, Sequences, FiniteSets, Bags, TLC

\* ------------------------------------------------------------------ bounds
MaxEntries == 2     \* entries of the remote playlist
MaxRuns    == 1     \* runs (threads started) per behaviour of Spec
MaxProcs   == 2     \* upper end of the processes spin box
MaxRejects == 1     \* clicks with an empty URL box per behaviour
MaxLen     == 3     \* length of the strings given to sanitize_filename

\* --------------------------------------------------------- pure functions

\* The character class of the regular expression in sanitize_filename
\* (first a class that lacks the last character, for comparison).
UnsafeChars_noPipe == {"\\", "/", "*", "?", ":", "\"", "<", ">"}
UnsafeChars == {"\\", "/", "*", "?", ":", "\"", "<", ">", "|"}

\* re.sub(r'[\\/*?:"<>|]', "", name): scan left to right, replace every
\* match of the class by the empty string, copy everything else.
RECURSIVE sanitize_filename(_)
sanitize_filename(name) ==
    IF name = <<>> THEN <<>>
    ELSE IF Head(name) \in UnsafeChars
         THEN sanitize_filename(Tail(name))
         ELSE <<Head(name)>> \o sanitize_filename(Tail(name))

\* The file name yt-dlp derives from the output template '%(title)s.%(ext)s':
\* the library does not delete the characters a file name cannot hold, it
\* replaces each of them by a look-alike character (written "~" here, a
\* character that is not in UnsafeChars; older releases replace most of
\* them, "/" included, by "_").
YdlChar(c) == IF c \in {"\\", "/", "*", "?", ":", "\"", "<", ">", "|"} THEN "~" ELSE c
YdlName(title) == [k \in 1..Len(title) |-> YdlChar(title[k])]

\* str.strip() of the URL box: drop leading and trailing blanks.
RECURSIVE LStrip(_)
LStrip(s) == IF s # <<>> /\ Head(s) = " " THEN LStrip(Tail(s)) ELSE s
RECURSIVE RStrip(_)
RStrip(s) ==
    IF s # <<>> /\ s[Len(s)] = " " THEN RStrip(SubSeq(s, 1, Len(s) - 1)) ELSE s
Strip(s) == RStrip(LStrip(s))

\* info.get('title', 'video') of video id v: the titles the remote service
\* reports (fixed for a video, some with characters a file name cannot hold).
TitleOf(v) ==
    CASE v % 3 = 1 -> <<"a", "/", "b">>
      [] v % 3 = 2 -> <<"c">>
      [] OTHER     -> <<"d", ":">>

PlaylistTitle == <<"P", "L">>

\* get_playlist_videos: remote is what extract_info does for the playlist
\* URL: "raise" (invalid URL, network error), "noentries" (the info has no
\* 'entries' key) or "entries" (a playlist; ents[j] is FALSE for an entry
\* the service reports as unavailable, and the id of entry j is j).
RECURSIVE EntryUrls(_, _)
EntryUrls(ents, j) ==
    IF j > Len(ents) THEN <<>>
    ELSE (IF ents[j] THEN <<j>> ELSE <<>>) \o EntryUrls(ents, j + 1)

get_playlist_videos(remote, ents) ==
    CASE remote = "raise"     -> [videos |-> <<>>, title |-> <<>>]
      [] remote = "noentries" -> [videos |-> <<>>, title |-> <<>>]
      [] OTHER -> [videos |-> EntryUrls(ents, 1), title |-> PlaylistTitle]

\* ------------------------------------------------------------------ inputs
Formats == {"mp3", "wav"}                       \* format_combo (two of four)
UrlTexts == {<<>>, <<" ">>, <<" ", "u", " ">>}   \* contents of url_input
Remotes == {"raise", "noentries", "entries"}
TempExt == "webm"                \* extension of the stream as downloaded

RECURSIVE SeqsUpTo(_, _)
SeqsUpTo(S, n) ==
    IF n = 0 THEN {<<>>}
    ELSE LET shorter == SeqsUpTo(S, n - 1)
         IN  shorter \cup {Append(s, c) : s \in shorter, c \in S}

Playlists == SeqsUpTo(BOOLEAN, MaxEntries)

\* What the destination directory may hold when the program is started: it
\* is absent, empty, or holds what an earlier session left for the first
\* video: a final mp3 under the name download_video tests for, and the
\* stream file of a download that was interrupted.
InitialDirs ==
    {{}, {[name |-> sanitize_filename(TitleOf(1)), ext |-> "mp3"],
          [name |-> YdlName(TitleOf(1)), ext |-> TempExt]}}
SanAlphabet == {"\\", "/", "*", "?", ":", "\"", "<", ">", "|", "a", "b"}
SanInputs == SeqsUpTo(SanAlphabet, MaxLen)

\* ------------------------------------------------------------------- state
VARIABLES
    download_button,   \* TRUE iff the button is enabled
    log_text,          \* the lines appended to the log box since the click
                       \* that started the latest run, as a bag
    notified,          \* title of the last desktop notification, "" if none
    dirExists,         \* the destination directory exists
    files,             \* files in the destination directory: [name, ext]
    entries,           \* the remote playlist (see get_playlist_videos)
    pc,                \* position of download_thread; "none": no thread
    url, fmt, processes,      \* arguments of the running download_thread
    remote,            \* what the playlist lookup of this thread did
    videos, playlist_title, total,   \* locals of download_thread
    pool,              \* "none", "open" or "terminated"
    nextTask,          \* index in args_list of the next task handed out
    task,              \* per index of args_list: the download_video call
    resultq,           \* results returned by workers, not yet iterated
    collected,         \* results the imap_unordered loop has yielded
    finished_q,        \* finished_signal emissions not yet delivered
    finishedEmitted,   \* summaries emitted by the current thread
    runs,              \* threads started so far
    prev,              \* the videos the previous run downloaded, with fmt
    leftover,          \* temporary files present when the run was started
    san                \* sanitize_filename harness: [pc, inp, out, again]

vars == <<download_button, log_text, notified, dirExists, files, entries, pc,
          url, fmt, processes, remote, videos, playlist_title, total, pool, nextTask,
          task, resultq, collected, finished_q, finishedEmitted, runs,
          prev, leftover, san>>

widgetVars == <<download_button, log_text, notified>>
threadVars == <<pc, url, fmt, processes, remote, videos, playlist_title,
                total>>
poolVars   == <<pool, nextTask, task, resultq, collected>>
ghostVars  == <<runs, prev, leftover>>

Line(kind, n, what) == [kind |-> kind, n |-> n, what |-> what]

\* append_log: one more line in the log box.  The program only ever appends
\* to the box and never reads it, so the model keeps the lines of the
\* latest run only, and as a bag: results arrive in completion order.
append_log(log, line) == log (+) SetToBag({line})

\* One element of args_list and the state of its download_video call:
\* phase "queued", "info", "download" or "done"; outcome as returned; net,
\* the network calls made; raised, the call that raised, if any; calls, how
\* often a worker entered download_video for it; existed, whether the
\* target file was there when download_video looked.
NewTask(video_url) ==
    [video |-> video_url, phase |-> "queued", outcome |-> "none", net |-> {},
     raised |-> "", calls |-> 0, existed |-> FALSE]

\* args_list: one (video_url, fmt, dir_path, idx, total) per video (first a
\* list that is one element short, for comparison).
ArgsList_dropLast(v) == [i \in 1..(Len(v) - 1) |-> NewTask(v[i])]
ArgsList(v) == [i \in 1..Len(v) |-> NewTask(v[i])]

SanIdle == [pc |-> "off", inp |-> <<>>, out |-> <<>>, again |-> <<>>]

\* The widget after __init__: button enabled, empty log, no thread.
WidgetInit ==
    /\ download_button = TRUE
    /\ log_text = EmptyBag
    /\ notified = ""
    /\ pc = "none"
    /\ url = <<>> /\ fmt = "" /\ processes = 0
    /\ remote = ""
    /\ videos = <<>> /\ playlist_title = <<>> /\ total = 0
    /\ pool = "none" /\ nextTask = 1 /\ task = <<>>
    /\ resultq = <<>> /\ collected = 0
    /\ finished_q = <<>> /\ finishedEmitted = <<>>
    /\ runs = 0
    /\ prev = {}
    /\ leftover = {}

Init ==
    /\ WidgetInit
    /\ dirExists \in BOOLEAN
    /\ files \in (IF dirExists THEN InitialDirs ELSE {{}})
    /\ entries \in Playlists
    /\ san = SanIdle

\* --------------------------------------------------- DownloaderWidget (GUI)

\* Files a previously interrupted download left behind.
TempFiles == {f \in files : f.ext = TempExt}

\* The tasks of the current run whose download_video call returned
\* "Downloaded ...".
Downloaded == {i \in 1..Len(task) : task[i].outcome = "Downloaded"}

\* start_download: the clicked slot of download_button (a disabled button
\* does not emit clicked).  text is the content of url_input, f and p the
\* values of format_combo and processes_spin; makedirsOk is whether
\* os.makedirs succeeds when the destination directory is absent.  When
\* os.makedirs raises, the exception leaves the slot after the button was
\* disabled and before the thread is created.
StartDownload(text, f, p, makedirsOk) ==
    /\ download_button
    /\ IF Strip(text) = <<>>
       THEN /\ log_text' = append_log(log_text, Line("please", 0, ""))
            /\ UNCHANGED <<download_button, notified, dirExists, files,
                           threadVars, poolVars, finished_q, finishedEmitted,
                           runs, prev, leftover>>
       ELSE /\ download_button' = FALSE
            \* the lines of earlier runs are dropped here, see append_log
            /\ log_text' = append_log(EmptyBag, Line("starting", 0, ""))
            /\ IF ~dirExists /\ ~makedirsOk
               THEN UNCHANGED <<notified, dirExists, files, threadVars,
                                poolVars, finished_q, finishedEmitted,
                                ghostVars>>
               ELSE /\ dirExists' = TRUE
                    /\ pc' = "load"
                    /\ url' = Strip(text) /\ fmt' = f /\ processes' = p
                    /\ runs' = runs + 1
                    /\ leftover' = IF dirExists THEN TempFiles ELSE {}
                    /\ UNCHANGED <<notified, files, remote, videos,
                                   playlist_title, total, poolVars, finished_q,
                                   finishedEmitted, prev>>
    /\ UNCHANGED <<entries, san>>

\* on_finished: the slot of finished_signal, run by the GUI thread when the
\* queued emission is delivered.  The emission is the last statement of
\* download_thread, so by now the thread has returned: its locals and its
\* pool are gone, and the run becomes the previous run.
OnFinished ==
    /\ finished_q # <<>>
    /\ LET playlist == Head(finished_q)[1]
           total_videos == Head(finished_q)[2]
       IN  /\ download_button' = TRUE
           /\ notified' = IF playlist # <<>> /\ total_videos > 0
                          THEN "Download Complete"
                          ELSE "Download Failed"
    /\ finished_q' = Tail(finished_q)
    /\ pc' = "none"
    /\ url' = <<>> /\ fmt' = "" /\ processes' = 0
    /\ remote' = ""
    /\ videos' = <<>> /\ playlist_title' = <<>> /\ total' = 0
    /\ pool' = "none" /\ nextTask' = 1 /\ task' = <<>>
    /\ resultq' = <<>> /\ collected' = 0
    /\ finishedEmitted' = <<>>
    /\ leftover' = {}
    /\ prev' = {[video |-> videos[i], fmt |-> fmt] : i \in Downloaded}
    /\ UNCHANGED <<log_text, dirExists, files, entries, runs, san>>

\* --------------------------------------------------------- download_thread

\* "Loading playlist..." and the call of get_playlist_videos.
LoadPlaylist(lookup) ==
    /\ pc = "load"
    /\ log_text' = append_log(log_text, Line("loading", 0, ""))
    /\ remote' = lookup
    /\ LET r == get_playlist_videos(lookup, entries)
       IN  /\ videos' = r.videos
           /\ playlist_title' = r.title
    /\ pc' = "resolved"
    /\ UNCHANGED <<download_button, notified, dirExists, files, entries, url,
                   fmt, processes, total, poolVars, finished_q,
                   finishedEmitted, ghostVars, san>>

\* "if not videos": the thread gives up when the list is empty (first a
\* test that never does, for comparison).
NoVideos_never(v) == FALSE
NoVideos(v) == v = <<>>

\* The rest of download_thread up to the creation of the pool: either the
\* early return with finished_signal.emit("", 0), or total, args_list (one
\* task per video, idx from 1) and multiprocessing.Pool(processes).
PreparePool ==
    /\ pc = "resolved"
    /\ IF NoVideos(videos)
       THEN /\ log_text' = append_log(log_text, Line("novideos", 0, ""))
            /\ finished_q' = Append(finished_q, <<<<>>, 0>>)
            /\ finishedEmitted' = Append(finishedEmitted, <<<<>>, 0>>)
            /\ pc' = "end"
            /\ UNCHANGED <<total, poolVars>>
       ELSE /\ total' = Len(videos)
            /\ log_text' = append_log(
                               append_log(log_text,
                                          Line("found", Len(videos), "")),
                               Line("startpool", 0, ""))
            /\ task' = ArgsList(videos)
            /\ pool' = "open"
            /\ pc' = "pool"
            /\ UNCHANGED <<nextTask, resultq, collected, finished_q,
                           finishedEmitted>>
    /\ UNCHANGED <<download_button, notified, dirExists, files, entries, url,
                   fmt, processes, remote, videos, playlist_title, ghostVars,
                   san>>

\* ------------------------------------------------- the pool and its workers

\* download_video calls that a worker has taken and not yet returned from.
InFlight == {i \in 1..Len(task) : task[i].phase \in {"info", "download"}}

\* Pool(processes=k) has k worker processes and each runs one task at a
\* time: a task is taken only by a worker that is idle (first a pool
\* without that limit, for comparison).
WorkerFree_unbounded == TRUE
WorkerFree == Cardinality(InFlight) < processes

\* An idle worker takes the next task of args_list (the pool hands tasks out
\* in list order) and enters download_video.
Dispatch ==
    /\ pc = "pool" /\ pool = "open"
    /\ nextTask <= Len(task)
    /\ WorkerFree
    /\ task' = [task EXCEPT ![nextTask].phase = "info",
                            ![nextTask].calls = @ + 1]
    /\ nextTask' = nextTask + 1
    /\ UNCHANGED <<widgetVars, dirExists, files, entries, threadVars, pool,
                   resultq, collected, finished_q, finishedEmitted,
                   ghostVars, san>>

\* The file whose existence download_video tests for the video of task i.
TargetFile(i) ==
    [name |-> sanitize_filename(TitleOf(task[i].video)), ext |-> fmt]

\* os.path.exists(target_file) (first a test that never finds the file,
\* for comparison).
target_exists_never(i) == FALSE
target_exists(i) == TargetFile(i) \in files

\* The file a successful download and conversion of that video leaves, and
\* the stream file that precedes the conversion.
ProducedFile(i) == [name |-> YdlName(TitleOf(task[i].video)), ext |-> fmt]
StreamFile(i) == [name |-> YdlName(TitleOf(task[i].video)), ext |-> TempExt]

Return(i, outcome) ==
    /\ resultq' = Append(resultq, [idx |-> i, outcome |-> outcome])

\* download_video, first half: extract_info(video_url, download=False), a
\* metadata lookup over the network that may raise, then the existence
\* test of the target file.
ExtractInfo(i, infoOk) ==
    /\ pool = "open"
    /\ i \in 1..Len(task) /\ task[i].phase = "info"
    /\ IF ~infoOk
       THEN /\ task' = [task EXCEPT ![i].phase = "done",
                                    ![i].outcome = "Error",
                                    ![i].raised = "extract_info",
                                    ![i].net = @ \cup {"extract_info"}]
            /\ Return(i, "Error")
       ELSE IF target_exists(i)
       THEN /\ task' = [task EXCEPT ![i].phase = "done",
                                    ![i].outcome = "Skipped",
                                    ![i].existed = TargetFile(i) \in files,
                                    ![i].net = @ \cup {"extract_info"}]
            /\ Return(i, "Skipped")
       ELSE /\ task' = [task EXCEPT ![i].phase = "download",
                                    ![i].existed = TargetFile(i) \in files,
                                    ![i].net = @ \cup {"extract_info"}]
            /\ UNCHANGED resultq
    /\ UNCHANGED <<widgetVars, dirExists, files, entries, threadVars, pool,
                   nextTask, collected, finished_q, finishedEmitted,
                   ghostVars, san>>

\* Download without the except clause: the exception of a failed download
\* travels through the pool into the for loop of download_thread and ends
\* the thread.
Download_uncaught(i, ok, leaveTemp) ==
    /\ pool = "open"
    /\ i \in 1..Len(task) /\ task[i].phase = "download"
    /\ IF ok
       THEN /\ files' = (files \ {StreamFile(i)}) \cup {ProducedFile(i)}
            /\ task' = [task EXCEPT ![i].phase = "done",
                                    ![i].outcome = "Downloaded",
                                    ![i].net = @ \cup {"download"}]
            /\ Return(i, "Downloaded")
            /\ UNCHANGED pc
       ELSE /\ files' = IF leaveTemp THEN files \cup {StreamFile(i)}
                        ELSE files
            /\ task' = [task EXCEPT ![i].phase = "done",
                                    ![i].raised = "download",
                                    ![i].net = @ \cup {"download"}]
            /\ pc' = "crashed"
            /\ UNCHANGED resultq
    /\ UNCHANGED <<widgetVars, dirExists, entries, url, fmt, processes,
                   remote, videos, playlist_title, total, pool, nextTask,
                   collected, finished_q, finishedEmitted, ghostVars, san>>

\* download_video, second half: ydl.download([video_url]) fetches the
\* stream and converts it.  Any exception (network, transcoder, file
\* system) is caught and returned as an error string; the stream file may
\* or may not be left behind.
Download(i, ok, leaveTemp) ==
    /\ pool = "open"
    /\ i \in 1..Len(task) /\ task[i].phase = "download"
    /\ IF ok
       THEN /\ files' = (files \ {StreamFile(i)}) \cup {ProducedFile(i)}
            /\ task' = [task EXCEPT ![i].phase = "done",
                                    ![i].outcome = "Downloaded",
                                    ![i].net = @ \cup {"download"}]
            /\ Return(i, "Downloaded")
       ELSE /\ files' = IF leaveTemp THEN files \cup {StreamFile(i)}
                        ELSE files
            /\ task' = [task EXCEPT ![i].phase = "done",
                                    ![i].outcome = "Error",
                                    ![i].raised = "download",
                                    ![i].net = @ \cup {"download"}]
            /\ Return(i, "Error")
    /\ UNCHANGED <<widgetVars, dirExists, entries, threadVars, pool,
                   nextTask, collected, finished_q, finishedEmitted,
                   ghostVars, san>>

\* One iteration of "for result in pool.imap_unordered(...)": the next
\* returned result, in completion order, is emitted on log_signal.
Collect ==
    /\ pc = "pool"
    /\ resultq # <<>>
    /\ log_text' = append_log(log_text, Line("result", Head(resultq).idx,
                                             Head(resultq).outcome))
    /\ resultq' = Tail(resultq)
    /\ collected' = collected + 1
    /\ UNCHANGED <<download_button, notified, dirExists, files, entries,
                   threadVars, pool, nextTask, task, finished_q,
                   finishedEmitted, ghostVars, san>>

\* The imap_unordered iterator is exhausted once it has yielded one result
\* per element of args_list (first a loop that ends as soon as every task
\* was handed out, for comparison).
PoolExhausted_dispatched == nextTask > Len(task)
PoolExhausted == collected = Len(task)

\* The end of download_thread: leaving the with block terminates the pool,
\* then "Download thread finished." and the finished signal.
FinishThread ==
    /\ pc = "pool"
    /\ PoolExhausted
    /\ pool' = "terminated"
    /\ log_text' = append_log(log_text, Line("threadfinished", 0, ""))
    /\ finished_q' = Append(finished_q, <<playlist_title, total>>)
    /\ finishedEmitted' = Append(finishedEmitted, <<playlist_title, total>>)
    /\ pc' = "end"
    /\ UNCHANGED <<download_button, notified, dirExists, files, entries, url,
                   fmt, processes, remote, videos, playlist_title, total,
                   nextTask, task, resultq, collected, ghostVars, san>>

\* The clicks on the download button: an empty URL box is refused at most
\* MaxRejects times and at most limit runs are started.
Click(limit) ==
    \E text \in UrlTexts, f \in Formats, p \in 1..MaxProcs,
       makedirsOk \in BOOLEAN :
        /\ IF Strip(text) = <<>>
           THEN CopiesIn(Line("please", 0, ""), log_text) < MaxRejects
           ELSE runs < limit
        /\ StartDownload(text, f, p, makedirsOk)

Background ==
    \/ OnFinished
    \/ \E lookup \in Remotes : LoadPlaylist(lookup)
    \/ PreparePool
    \/ Dispatch
    \/ \E i \in 1..MaxEntries, infoOk \in BOOLEAN : ExtractInfo(i, infoOk)
    \/ \E i \in 1..MaxEntries, ok \in BOOLEAN, leaveTemp \in BOOLEAN :
          Download(i, ok, leaveTemp)
    \/ Collect
    \/ FinishThread

Next == Click(MaxRuns) \/ Background

\* Sessions of at most MaxRuns runs.
Spec == Init /\ [][Next]_vars

\* Sessions with one more run, for what is said about running again.
NextRerun == Click(MaxRuns + 1) \/ Background

SpecRerun == Init /\ [][NextRerun]_vars

\* The thread, the pool workers and the GUI event loop are scheduled by the
\* operating system and every network call returns or raises (yt-dlp sets
\* socket timeouts): a background step that can be taken is taken.
FairSpec == Init /\ [][Next]_vars /\ WF_vars(Background)

\* -------------------------------------------- sanitize_filename on its own

Sanitize ==
    /\ san.pc = "in"
    /\ san' = [san EXCEPT !.pc = "out", !.out = sanitize_filename(san.inp)]
    /\ UNCHANGED <<widgetVars, dirExists, files, entries, threadVars,
                   poolVars, finished_q, finishedEmitted, ghostVars>>

Resanitize ==
    /\ san.pc = "out"
    /\ san' = [san EXCEPT !.pc = "again",
                          !.again = sanitize_filename(san.out)]
    /\ UNCHANGED <<widgetVars, dirExists, files, entries, threadVars,
                   poolVars, finished_q, finishedEmitted, ghostVars>>

InitSanitize ==
    /\ WidgetInit
    /\ dirExists = FALSE /\ files = {} /\ entries = <<>>
    /\ san \in {[pc |-> "in", inp |-> s, out |-> <<>>, again |-> <<>>] :
                   s \in SanInputs}

NextSanitize == Sanitize \/ Resanitize

SpecSanitize == InitSanitize /\ [][NextSanitize]_vars

\* ------------------------------------------------------------------ claims

Tasks == 1..Len(task)

\* The fetch-outcome lines of the log box, with their multiplicities.
ResultLines ==
    LET lines == {l \in BagToSet(log_text) : l.kind = "result"}
    IN  [l \in lines |-> CopiesIn(l, log_text)]

\* The number of log lines that report the outcome of task i.
LinesFor(i) ==
    BagCardinality([l \in {m \in DOMAIN ResultLines : m.n = i}
                      |-> ResultLines[l]])

\* The videos of the remote playlist that are available.
Available == {j \in DOMAIN entries : entries[j]}

\* C1: the finished signal is emitted exactly once per run: never while the
\* thread is still before its last statement, exactly once when the thread
\* has ended, and, when the playlist resolved, only after every
\* download_video call that was dispatched has returned and its result has
\* been logged; no result is waiting or logged after the summary.
C1_SummaryOnceAfterAllReturned ==
    /\ Len(finishedEmitted) <= 1
    /\ pc \in {"load", "resolved", "pool"} => finishedEmitted = <<>>
    /\ pc = "end" => Len(finishedEmitted) = 1
    /\ (finishedEmitted # <<>> /\ videos # <<>>) =>
          /\ \A i \in Tasks :
                task[i].calls > 0 =>
                   /\ task[i].phase = "done"
                   /\ task[i].outcome \in {"Skipped", "Downloaded", "Error"}
          /\ InFlight = {}
          /\ resultq = <<>>
          /\ BagCardinality(ResultLines)
                = Cardinality({i \in Tasks : task[i].calls > 0})

C1_Witness ==
    /\ pc = "end"
    /\ finishedEmitted = <<<<PlaylistTitle, 2>>>>
    /\ \E i, j \in Tasks :
          task[i].outcome = "Error" /\ task[j].outcome = "Downloaded"

\* C2: a playlist that resolves to N >= 1 videos gets one download_video
\* call per video, never two; when the thread has ended the log holds the
\* five framing lines and exactly one outcome line per video, and the one
\* summary carries the playlist title and N.
C2_OneOutcomePerVideo ==
    /\ \A i \in Tasks : task[i].calls <= 1 /\ LinesFor(i) <= 1
    /\ (pc = "end" /\ videos # <<>>) =>
          /\ Len(videos) = Cardinality(Available)
          /\ \A j \in Available : \E i \in Tasks : task[i].video = j
          /\ Len(task) = Len(videos)
          /\ \A i \in Tasks :
                /\ task[i].video = videos[i]
                /\ task[i].calls = 1
                /\ LinesFor(i) = 1
          /\ BagCardinality(ResultLines) = Len(videos)
          /\ log_text =
                SetToBag({Line("starting", 0, ""), Line("loading", 0, ""),
                          Line("found", Len(videos), ""),
                          Line("startpool", 0, ""),
                          Line("threadfinished", 0, "")}
                         \cup {Line("result", i, task[i].outcome) :
                                  i \in Tasks})
          /\ finishedEmitted = <<<<playlist_title, Len(videos)>>>>

C2_Witness ==
    /\ pc = "end"
    /\ Len(videos) = 2
    /\ processes = 1
    /\ \A i \in Tasks : task[i].calls = 1
    /\ BagCardinality(ResultLines) = 2

\* C3: when the playlist lookup fails, no pool is created, no
\* download_video call is dispatched, and the thread ends with the one
\* summary ("", 0).
C3_ResolveFailure ==
    remote \in {"raise", "noentries"} =>
       /\ pc \in {"resolved", "end"}
       /\ pool = "none"
       /\ task = <<>> /\ nextTask = 1 /\ resultq = <<>>
       /\ BagCardinality(ResultLines) = 0
       /\ finishedEmitted \in {<<>>, <<<<<<>>, 0>>>>}
       /\ pc = "end" => finishedEmitted = <<<<<<>>, 0>>>>

C3_Witness ==
    /\ remote = "raise"
    /\ pc = "end"
    /\ Available # {}
    /\ finishedEmitted = <<<<<<>>, 0>>>>

\* C4: a video the previous run downloaded, with the same playlist and
\* format, is not downloaded again: the call of the next run returns
\* Skipped (or an error the network caused), never Downloaded.
C4_RerunSkips ==
    \A i \in Tasks :
       [video |-> task[i].video, fmt |-> fmt] \in prev =>
          /\ task[i].phase # "download"
          /\ task[i].outcome # "Downloaded"

\* C5: never more download_video calls in flight than the worker count.
C5_AtMostKInFlight == Cardinality(InFlight) <= processes

C5_Witness ==
    /\ processes = 1
    /\ Len(task) = 2
    /\ Cardinality(InFlight) = 1
    /\ nextTask <= Len(task)

\* A call that raised has the outcome Error and no other, and no task is
\* entered twice.
C6_Isolated ==
    \A i \in Tasks :
       /\ task[i].calls <= 1
       /\ (task[i].raised # "") <=> (task[i].outcome = "Error")
       /\ task[i].outcome = "Error" => task[i].phase = "done"

\* The thread has ended after fetching every video once.
C6_RunComplete ==
    /\ pc = "end"
    /\ \A i \in Tasks : task[i].phase = "done" /\ task[i].calls = 1
                          /\ LinesFor(i) = 1
    /\ Len(task) = Len(videos)
    /\ CopiesIn(Line("threadfinished", 0, ""), log_text) = 1
    /\ finishedEmitted = <<<<playlist_title, Len(videos)>>>>

\* C6: once the playlist has resolved to at least one video, a call that
\* raised has the outcome Error for that video only, every task is entered
\* at most once (nothing is retried), and the run goes on to its end: every
\* video fetched once, one outcome line each, the terminal line logged and
\* the summary emitted with the number of resolved videos.
C6_FailuresIsolated ==
    /\ []C6_Isolated
    /\ (pc = "pool") ~> C6_RunComplete

C6_Witness ==
    /\ C6_RunComplete
    /\ Len(task) = 2
    /\ task[1].raised = "download"
    /\ task[2].outcome = "Downloaded"

\* C7 as stated: a Skipped result is returned without any network call.
C7_SkippedWithoutNetwork ==
    \A i \in Tasks : task[i].outcome = "Skipped" => task[i].net = {}

\* C7 as amended: when the metadata lookup succeeded and the target file is
\* there, the call returns Skipped after that one lookup and without any
\* stream download; Skipped is returned in no other case.
C7_SkippedAfterLookupOnly ==
    \A i \in Tasks :
       /\ task[i].existed =>
             /\ task[i].phase = "done"
             /\ task[i].outcome = "Skipped"
             /\ task[i].net = {"extract_info"}
       /\ task[i].outcome = "Skipped" => task[i].existed

C7_Witness ==
    \E i \in Tasks :
       /\ task[i].existed
       /\ task[i].outcome = "Skipped"
       /\ task[i].net = {"extract_info"}

\* The characters the claim lists.
ClaimChars == {"\\", "/", "*", "?", ":", "\"", "<", ">", "|"}

Kept(c) == c \notin ClaimChars

\* C8: sanitize_filename returns its input without the characters
\* \ / * ? : " < > | and with everything else in order; the output holds
\* none of them and sanitizing it again changes nothing.
C8_SanitizeRemoves ==
    /\ san.pc \in {"out", "again"} =>
          /\ san.out = SelectSeq(san.inp, Kept)
          /\ \A k \in 1..Len(san.out) : san.out[k] \notin ClaimChars
    /\ san.pc = "again" => san.again = san.out

C8_Witness ==
    /\ san.pc = "again"
    /\ san.inp = <<"a", "|", "b">>
    /\ san.out = <<"a", "b">>

\* C9: when a run is started on a directory that existed, the stream files
\* left in it are gone, each with a log line, before the first
\* download_video call is dispatched.
C9_LeftoverDeleted ==
    (pc = "pool" /\ nextTask > 1
       /\ \A i \in Tasks : task[i].phase \in {"queued", "info"}) =>
       /\ leftover \cap files = {}
       /\ \A f \in leftover : CopiesIn(Line("deleted", 0, f.name), log_text) = 1

\* A thread was started and its finished signal has not been handled.
RunInProgress == pc # "none" \/ finished_q # <<>>

\* C10: the button is disabled exactly while a run is in progress, also
\* after a click with an empty URL or a failing os.makedirs.
C10_ButtonIffRun == (~download_button) <=> RunInProgress
====
